---- MODULE Spec2Model ----
(***************************************************************************)
(* Model of the Minesweeper board engine (class Minesweeper of             *)
(* Minesweeper.py): construction, lazy first-click-safe mine placement,    *)
(* adjacency counts, flagging, flood reveal and win/loss detection.        *)
(***************************************************************************)
EXTENDS Integers, Sequences, FiniteSets, TLC

\* ---- bounds of the model ----
MaxCells == 5
MaxOps == 3

\* every GameConfig the model constructs an engine from, valid or not:
\* boards of at most MaxCells cells, mine counts from -1 to one past the board
Configs ==
    { g \in [rows : 1..MaxCells, cols : 1..MaxCells, mines : (-1)..(MaxCells + 1)] :
        g.rows * g.cols <= MaxCells /\ g.mines <= g.rows * g.cols + 1 }

VARIABLES
    cfg,            \* the GameConfig handed to the constructor
    engine,         \* "none" | "created" | "failed" (constructor raised)
    mines,          \* self.mines
    adj,            \* self.adj, adj[r][c]
    revealed,       \* self.revealed
    flags,          \* self.flags
    mines_placed,   \* self._mines_placed
    game_over,      \* self.game_over
    won,            \* self.won
    last,           \* the last call made and whether it raised
    ops             \* number of reveal / toggle_flag calls made so far

vars == <<cfg, engine, mines, adj, revealed, flags, mines_placed,
          game_over, won, last, ops>>

engineVars == <<mines, adj, revealed, flags, mines_placed, game_over, won>>

\* ---- pure helpers ----

Cells(g) == (0..(g.rows - 1)) \X (0..(g.cols - 1))

in_bounds(g, r, c) == 0 <= r /\ r < g.rows /\ 0 <= c /\ c < g.cols

\* neighbors scanning only the four orthogonal offsets
neighbors_orthogonal(g, r, c) ==
    LET scan == <<<<r - 1, c>>, <<r, c - 1>>, <<r, c + 1>>, <<r + 1, c>>>>
    IN  SelectSeq(scan, LAMBDA p : 0 <= p[1] /\ p[1] < g.rows /\ 0 <= p[2] /\ p[2] < g.cols)

\* the 3x3 scan dr in (-1,0,1), dc in (-1,0,1), centre skipped, in code order
neighbors(g, r, c) ==
    LET scan == [i \in 1..9 |-> <<r + ((i - 1) \div 3) - 1, c + ((i - 1) % 3) - 1>>]
    IN  SelectSeq(scan, LAMBDA p : p # <<r, c>> /\ in_bounds(g, p[1], p[2]))

SeqToSet(s) == { s[i] : i \in 1..Len(s) }

ZeroGrid(g) == [r \in 0..(g.rows - 1) |-> [c \in 0..(g.cols - 1) |-> 0]]

\* self.adj[nr][nc] += 1 for every (nr, nc) of a neighbour list
RECURSIVE IncAll(_, _)
IncAll(a, nbs) ==
    IF nbs = <<>> THEN a
    ELSE LET nb == Head(nbs)
         IN  IncAll([a EXCEPT ![nb[1]][nb[2]] = @ + 1], Tail(nbs))

RECURSIVE recompute_adjacency(_, _)
recompute_adjacency(g, ms) ==
    IF ms = {} THEN ZeroGrid(g)
    ELSE LET m == CHOOSE x \in ms : TRUE
         IN  IncAll(recompute_adjacency(g, ms \ {m}), neighbors(g, m[1], m[2]))

\* candidates whose relaxed pool forgets to leave out the safe cell
candidates_keeps_safe(g, safe) ==
    LET forbidden == { p \in Cells(g) : p[1] - safe[1] \in {-1, 0, 1} /\ p[2] - safe[2] \in {-1, 0, 1} }
        strict == Cells(g) \ forbidden
    IN  IF Cardinality(strict) < g.mines THEN Cells(g) ELSE strict

\* candidates relaxing the exclusion already when the pool is just large enough
candidates_relaxes_early(g, safe) ==
    LET forbidden == { p \in Cells(g) : p[1] - safe[1] \in {-1, 0, 1} /\ p[2] - safe[2] \in {-1, 0, 1} }
        strict == Cells(g) \ forbidden
    IN  IF Cardinality(strict) <= g.mines THEN Cells(g) \ {safe} ELSE strict

\* candidates of _place_mines_first_click_safe, with the relaxation for tiny grids
candidates(g, safe) ==
    LET forbidden == SeqToSet(neighbors(g, safe[1], safe[2])) \cup {safe}
        strict == Cells(g) \ forbidden
    IN  IF Cardinality(strict) < g.mines THEN Cells(g) \ {safe} ELSE strict

\* a sample drawn with replacement: up to k distinct cells
rng_sample_with_replacement(population, k) ==
    IF k < 0 \/ k > Cardinality(population) THEN {}
    ELSE { s \in SUBSET population : Cardinality(s) <= k /\ (k > 0 => s # {}) }

\* random.Random.sample(population, k): every k-subset is a possible result;
\* no result (ValueError) when k is negative or larger than the population
rng_sample(population, k) ==
    IF k < 0 \/ k > Cardinality(population) THEN {}
    ELSE { s \in SUBSET population : Cardinality(s) = k }

\* a flood loop that never looks at the flags
RECURSIVE flood_loop_over_flags(_, _, _, _, _, _)
flood_loop_over_flags(g, a, ms, fl, stack, rev) ==
    IF stack = <<>> THEN rev
    ELSE LET cell == stack[Len(stack)]
             rest == SubSeq(stack, 1, Len(stack) - 1)
         IN  IF cell \in rev
             THEN flood_loop_over_flags(g, a, ms, fl, rest, rev)
             ELSE LET rev2 == rev \cup {cell}
                  IN  IF a[cell[1]][cell[2]] = 0
                      THEN flood_loop_over_flags(g, a, ms, fl,
                               rest \o SelectSeq(neighbors(g, cell[1], cell[2]),
                                           LAMBDA nb : nb \notin rev2 /\ nb \notin ms),
                               rev2)
                      ELSE flood_loop_over_flags(g, a, ms, fl, rest, rev2)

\* a flood loop that pushes only the neighbours whose own count is zero
RECURSIVE flood_loop_zero_only(_, _, _, _, _, _)
flood_loop_zero_only(g, a, ms, fl, stack, rev) ==
    IF stack = <<>> THEN rev
    ELSE LET cell == stack[Len(stack)]
             rest == SubSeq(stack, 1, Len(stack) - 1)
         IN  IF cell \in rev \/ cell \in fl
             THEN flood_loop_zero_only(g, a, ms, fl, rest, rev)
             ELSE LET rev2 == rev \cup {cell}
                  IN  IF a[cell[1]][cell[2]] = 0
                      THEN flood_loop_zero_only(g, a, ms, fl,
                               rest \o SelectSeq(neighbors(g, cell[1], cell[2]),
                                           LAMBDA nb : nb \notin rev2 /\ nb \notin ms /\ nb \notin fl
                                                       /\ a[nb[1]][nb[2]] = 0),
                               rev2)
                      ELSE flood_loop_zero_only(g, a, ms, fl, rest, rev2)

\* the while-loop of _flood_reveal: stack is popped from its end
RECURSIVE flood_loop(_, _, _, _, _, _)
flood_loop(g, a, ms, fl, stack, rev) ==
    IF stack = <<>> THEN rev
    ELSE LET cell == stack[Len(stack)]
             rest == SubSeq(stack, 1, Len(stack) - 1)
         IN  IF cell \in rev \/ cell \in fl
             THEN flood_loop(g, a, ms, fl, rest, rev)
             ELSE LET rev2 == rev \cup {cell}
                  IN  IF a[cell[1]][cell[2]] = 0
                      THEN flood_loop(g, a, ms, fl,
                               rest \o SelectSeq(neighbors(g, cell[1], cell[2]),
                                           LAMBDA nb : nb \notin rev2 /\ nb \notin ms /\ nb \notin fl),
                               rev2)
                      ELSE flood_loop(g, a, ms, fl, rest, rev2)

flood_reveal(g, a, ms, fl, rev, start) == flood_loop(g, a, ms, fl, <<start>>, rev)

\* a win check that forgets to subtract the mines
check_win_total(g, rev) == Cardinality(rev) = g.rows * g.cols

\* _check_win: does the revealed count equal total - mines
check_win(g, rev) == Cardinality(rev) = g.rows * g.cols - g.mines

Call(op, r, c, raised) == [op |-> op, r |-> r, c |-> c, raised |-> raised]

\* ---- initial state: no engine yet, a configuration to construct it from ----
Init ==
    /\ cfg \in Configs
    /\ engine = "none"
    /\ mines = {}
    /\ adj = <<>>
    /\ revealed = {}
    /\ flags = {}
    /\ mines_placed = FALSE
    /\ game_over = FALSE
    /\ won = FALSE
    /\ last = Call("none", 0, 0, "none")
    /\ ops = 0

\* a validation with > in place of >=
init_rejects_strict(g) == g.mines > g.rows * g.cols

\* the validation of Minesweeper.__init__
init_rejects(g) == g.mines >= g.rows * g.cols

\* Minesweeper.__init__ raising ValueError: no engine object exists
CreateFails ==
    /\ engine = "none"
    /\ init_rejects(cfg)
    /\ engine' = "failed"
    /\ last' = Call("create", 0, 0, "ValueError")
    /\ UNCHANGED <<cfg, mines, adj, revealed, flags, mines_placed, game_over, won, ops>>

\* Minesweeper.__init__ succeeding
Create ==
    /\ engine = "none"
    /\ ~init_rejects(cfg)
    /\ engine' = "created"
    /\ mines' = {}
    /\ adj' = ZeroGrid(cfg)
    /\ revealed' = {}
    /\ flags' = {}
    /\ mines_placed' = FALSE
    /\ game_over' = FALSE
    /\ won' = FALSE
    /\ last' = Call("create", 0, 0, "none")
    /\ UNCHANGED <<cfg, ops>>

\* coordinates a caller may pass: every cell of the board, and outside it one
\* coordinate pair for each of the four comparisons of in_bounds
Args == Cells(cfg) \cup {<<-1, 0>>, <<cfg.rows, 0>>, <<0, -1>>, <<0, cfg.cols>>}

\* a toggle that does not look at game_over
flags_after_toggle_ignoring_over(g, over, rev, fl, r, c) ==
    IF ~in_bounds(g, r, c) THEN fl
    ELSE IF <<r, c>> \in rev THEN fl
    ELSE IF <<r, c>> \in fl THEN fl \ {<<r, c>>}
    ELSE fl \cup {<<r, c>>}

\* a toggle that only ever adds the flag
flags_after_toggle_add_only(g, over, rev, fl, r, c) ==
    IF over \/ ~in_bounds(g, r, c) THEN fl
    ELSE IF <<r, c>> \in rev THEN fl
    ELSE fl \cup {<<r, c>>}

\* the flags set toggle_flag(r, c) leaves behind
flags_after_toggle(g, over, rev, fl, r, c) ==
    IF over \/ ~in_bounds(g, r, c) THEN fl
    ELSE IF <<r, c>> \in rev THEN fl
    ELSE IF <<r, c>> \in fl THEN fl \ {<<r, c>>}
    ELSE fl \cup {<<r, c>>}

\* toggle_flag(r, c)
toggle_flag(r, c) ==
    /\ engine = "created"
    /\ ops < MaxOps
    /\ ops' = ops + 1
    /\ last' = Call("toggle_flag", r, c, "none")
    /\ flags' = flags_after_toggle(cfg, game_over, revealed, flags, r, c)
    /\ UNCHANGED <<cfg, engine, mines, adj, revealed, mines_placed, game_over, won>>

\* reveal(r, c) returning at one of its two early returns
RevealNoop(r, c) ==
    /\ engine = "created"
    /\ ops < MaxOps
    /\ \/ game_over \/ ~in_bounds(cfg, r, c)
       \/ <<r, c>> \in flags \/ <<r, c>> \in revealed
    /\ ops' = ops + 1
    /\ last' = Call("reveal", r, c, "none")
    /\ UNCHANGED <<cfg, engine, mines, adj, revealed, flags, mines_placed, game_over, won>>

\* reveal going on without its check of the flags
RevealGuard_ignoring_flags(r, c) ==
    /\ engine = "created"
    /\ ops < MaxOps
    /\ ~game_over /\ in_bounds(cfg, r, c)
    /\ <<r, c>> \notin revealed

\* reveal(r, c) passing both early returns
RevealGuard(r, c) ==
    /\ engine = "created"
    /\ ops < MaxOps
    /\ ~game_over /\ in_bounds(cfg, r, c)
    /\ <<r, c>> \notin flags /\ <<r, c>> \notin revealed

\* reveal(r, c) whose first-click placement raises inside rng.sample
RevealRaises(r, c) ==
    /\ RevealGuard(r, c)
    /\ ~mines_placed
    /\ rng_sample(candidates(cfg, <<r, c>>), cfg.mines) = {}
    /\ ops' = ops + 1
    /\ last' = Call("reveal", r, c, "ValueError")
    /\ UNCHANGED <<cfg, engine, mines, adj, revealed, flags, mines_placed, game_over, won>>

\* a reveal whose mine branch lacks its return: the flood and the win check
\* still run after a mine was hit
RevealBody_no_return(r, c, ms, a) ==
    /\ mines' = ms
    /\ adj' = a
    /\ mines_placed' = TRUE
    /\ ops' = ops + 1
    /\ last' = Call("reveal", r, c, "none")
    /\ LET hit == <<r, c>> \in ms
           rev == flood_reveal(cfg, a, ms, flags, revealed, <<r, c>>)
       IN  /\ revealed' = rev
           /\ game_over' = (IF hit \/ check_win(cfg, rev) THEN TRUE ELSE game_over)
           /\ won' = (IF check_win(cfg, rev) THEN TRUE ELSE won)
    /\ UNCHANGED <<cfg, engine, flags>>

\* the rest of reveal once the mine set ms and the grid a are in place
RevealBody(r, c, ms, a) ==
    /\ mines' = ms
    /\ adj' = a
    /\ mines_placed' = TRUE
    /\ ops' = ops + 1
    /\ last' = Call("reveal", r, c, "none")
    /\ IF <<r, c>> \in ms
       THEN /\ game_over' = TRUE
            /\ won' = FALSE
            /\ revealed' = revealed \cup {<<r, c>>}
       ELSE LET rev == flood_reveal(cfg, a, ms, flags, revealed, <<r, c>>)
            IN  /\ revealed' = rev
                /\ game_over' = (IF check_win(cfg, rev) THEN TRUE ELSE game_over)
                /\ won' = (IF check_win(cfg, rev) THEN TRUE ELSE won)
    /\ UNCHANGED <<cfg, engine, flags>>

\* _place_mines_first_click_safe(safe): the mine sets it can produce
place_mines_first_click_safe(g, safe) == rng_sample(candidates(g, safe), g.mines)

\* reveal(r, c) as the first effective reveal: places the mines, then reveals
RevealFirst(r, c) ==
    /\ RevealGuard(r, c)
    /\ ~mines_placed
    /\ \E ms \in place_mines_first_click_safe(cfg, <<r, c>>) :
          RevealBody(r, c, ms, recompute_adjacency(cfg, ms))

\* a reveal that places the mines again on every call
RevealLater_places_again(r, c) ==
    /\ RevealGuard(r, c)
    /\ mines_placed
    /\ \E ms \in place_mines_first_click_safe(cfg, <<r, c>>) :
          RevealBody(r, c, ms, recompute_adjacency(cfg, ms))

\* reveal(r, c) with the mines already placed
RevealLater(r, c) ==
    /\ RevealGuard(r, c)
    /\ mines_placed
    /\ RevealBody(r, c, mines, adj)

reveal(r, c) ==
    \/ RevealNoop(r, c)
    \/ RevealRaises(r, c)
    \/ RevealFirst(r, c)
    \/ RevealLater(r, c)

Reveal == \E p \in Args : reveal(p[1], p[2])
ToggleFlag == \E p \in Args : toggle_flag(p[1], p[2])

Next ==
    \/ Create
    \/ CreateFails
    \/ Reveal
    \/ ToggleFlag

Spec == Init /\ [][Next]_vars

TypeOK ==
    /\ cfg \in Configs
    /\ engine \in {"none", "created", "failed"}
    /\ ops \in 0..MaxOps
    /\ revealed \subseteq Cells(cfg)
    /\ flags \subseteq Cells(cfg)
    /\ mines \subseteq Cells(cfg)

\* ---- properties ----

Total == cfg.rows * cfg.cols
ValidConfig(g) == 0 <= g.mines /\ g.mines < g.rows * g.cols
LastCell == <<last.r, last.c>>
\* a step that is one call of reveal or toggle_flag
IsCall == ops' = ops + 1

\* C1: first-click safety. The reveal that places the mines (the first reveal
\* that takes effect) never has its clicked cell in the mine set, leaves that
\* cell revealed, and does not leave the game Lost.
C1_FirstClickSafe ==
    [][(engine = "created" /\ ~mines_placed /\ mines_placed')
        => /\ last'.op = "reveal"
           /\ <<last'.r, last'.c>> \notin mines'
           /\ <<last'.r, last'.c>> \in revealed'
           /\ ~(game_over' /\ ~won')]_vars

\* a first reveal has taken effect on a board that holds mines
C1_Witness ==
    /\ mines_placed /\ ops = 1 /\ last.op = "reveal"
    /\ mines # {} /\ LastCell \in revealed

\* C2 as stated: won holds exactly when the revealed count is rows*cols - mines.
C2_Original ==
    engine = "created" => (won <=> Cardinality(revealed) = Total - cfg.mines)

\* C2 amended: won holds exactly when the revealed count is rows*cols - mines
\* and no revealed cell is a mine (the count was not reached by the losing
\* reveal); won implies game_over.
C2_WinIffAllSafeRevealed ==
    engine = "created" =>
        /\ won <=> (Cardinality(revealed) = Total - cfg.mines /\ revealed \cap mines = {})
        /\ won => game_over

\* a game won by a reveal after the first one, on a board with mines
C2_Witness ==
    /\ won /\ game_over /\ mines # {} /\ ops >= 2
    /\ Cardinality(revealed) = Total - cfg.mines

\* C3: terminal states are absorbing. Once game_over holds, every call of
\* reveal or toggle_flag leaves mines, adj, revealed, flags, mines_placed,
\* game_over and won unchanged.
C3_TerminalAbsorbing ==
    [][(engine = "created" /\ game_over) => UNCHANGED engineVars]_vars

\* a toggle_flag call made on a hidden in-bounds cell of a game that is over
C3_Witness ==
    /\ game_over /\ last.op = "toggle_flag"
    /\ in_bounds(cfg, last.r, last.c)
    /\ LastCell \notin revealed /\ LastCell \notin flags

\* C4 as stated: construction fails for every configuration whose mine count
\* is outside [0, rows*cols), negative counts included, and no engine exists.
C4_RejectsOutOfRange ==
    (engine # "none" /\ ~ValidConfig(cfg)) =>
        (engine = "failed" /\ last.raised = "ValueError")

\* C5 as stated: constructing with rows=2, cols=2, mines=3 fails.
C5_Original ==
    (engine # "none" /\ cfg = [rows |-> 2, cols |-> 2, mines |-> 3]) =>
        (engine = "failed" /\ last.raised = "ValueError")

\* C5 amended: constructing with rows=2, cols=2, mines=3 succeeds (3 < 4);
\* it is rows=2, cols=2, mines=4 that fails with the construction error.
C5_ScenarioB ==
    /\ (engine # "none" /\ cfg = [rows |-> 2, cols |-> 2, mines |-> 3]) =>
          (engine = "created" /\ last.raised = "none")
    /\ (engine # "none" /\ cfg = [rows |-> 2, cols |-> 2, mines |-> 4]) =>
          (engine = "failed" /\ last.raised = "ValueError")

\* the 2x2 board with 3 mines has been constructed and played on
C5_Witness ==
    /\ cfg = [rows |-> 2, cols |-> 2, mines |-> 3]
    /\ engine = "created" /\ mines_placed /\ Cardinality(mines) = 3

\* C6: the mine set is empty until placement; once mines_placed holds it has
\* exactly cfg.mines distinct in-bounds cells, and no later call changes it.
C6_MineSetFixed ==
    /\ [](engine = "created" =>
            /\ ~mines_placed => mines = {}
            /\ mines_placed => (Cardinality(mines) = cfg.mines /\ mines \subseteq Cells(cfg)))
    /\ [][mines_placed => (mines' = mines /\ mines_placed')]_vars

\* a call made after placement on a board that holds mines
C6_Witness ==
    /\ mines_placed /\ ops >= 2 /\ mines # {}
    /\ Cardinality(mines) = cfg.mines /\ ~game_over

\* the mines at Chebyshev distance 1 of a cell, counted from the mine set alone
MinesAround(r, c) ==
    Cardinality({ m \in mines :
        LET dr == IF m[1] >= r THEN m[1] - r ELSE r - m[1]
            dc == IF m[2] >= c THEN m[2] - c ELSE c - m[2]
        IN  (IF dr >= dc THEN dr ELSE dc) = 1 })

\* C7: in every state, adj[r][c] is the number of mines among the in-bounds
\* cells at Chebyshev distance 1 of (r, c), all zero before placement.
C7_AdjacencyExact ==
    engine = "created" =>
        /\ DOMAIN adj = 0..(cfg.rows - 1)
        /\ \A r \in 0..(cfg.rows - 1) :
              /\ DOMAIN adj[r] = 0..(cfg.cols - 1)
              /\ \A c \in 0..(cfg.cols - 1) : adj[r][c] = MinesAround(r, c)
        /\ ~mines_placed => \A p \in Cells(cfg) : adj[p[1]][p[2]] = 0

\* a placed board with a cell next to two mines, one of them diagonal to it
C7_Witness ==
    /\ mines_placed
    /\ \E p \in Cells(cfg) :
          /\ adj[p[1]][p[2]] >= 2
          /\ \E m \in mines :
                /\ m[1] # p[1] /\ m[2] # p[2]
                /\ m \in SeqToSet(neighbors(cfg, p[1], p[2]))

\* C8: no cell is both revealed and flagged.
C8_RevealedFlagsDisjoint == revealed \cap flags = {}

\* a flood went past a flagged cell: a revealed zero-count cell has a flagged
\* neighbour that is not a mine
C8_Witness ==
    /\ mines_placed
    /\ \E z \in revealed, f \in flags :
          /\ adj[z[1]][z[2]] = 0
          /\ f \in SeqToSet(neighbors(cfg, z[1], z[2]))
          /\ f \notin mines

\* C9: reveal(r, c) on a cell that is flagged or already revealed changes
\* none of flags, revealed, mines, mines_placed, game_over, won.
C9_RevealNoopOnFlaggedOrRevealed ==
    [][(IsCall /\ last'.op = "reveal"
         /\ (<<last'.r, last'.c>> \in flags \/ <<last'.r, last'.c>> \in revealed))
        => UNCHANGED <<flags, revealed, mines, adj, mines_placed, game_over, won>>]_vars

\* reveal was called on a flagged cell before any placement
C9_Witness ==
    /\ last.op = "reveal" /\ LastCell \in flags
    /\ ~mines_placed /\ ~game_over /\ revealed = {}

\* C10: round-trip law for flags. In a non-terminal state, toggling an
\* in-bounds unrevealed cell twice gives back the flags set, one toggle
\* changes the membership of that cell alone, and toggle_flag changes
\* nothing but flags.
C10_ToggleRoundTrip ==
    /\ []((engine = "created" /\ ~game_over) =>
            \A p \in Cells(cfg) \ revealed :
               LET once == flags_after_toggle(cfg, game_over, revealed, flags, p[1], p[2])
                   twice == flags_after_toggle(cfg, game_over, revealed, once, p[1], p[2])
               IN  /\ twice = flags
                   /\ (once \ flags) \cup (flags \ once) = {p})
    /\ [][(IsCall /\ last'.op = "toggle_flag")
            => /\ UNCHANGED <<mines, adj, revealed, mines_placed, game_over, won>>
               /\ (~game_over /\ in_bounds(cfg, last'.r, last'.c)
                     /\ <<last'.r, last'.c>> \notin revealed)
                  => (flags' \ flags) \cup (flags \ flags') = {<<last'.r, last'.c>>}]_vars
    /\ []((engine = "created" /\ ops = 2 /\ last.op = "toggle_flag" /\ ~mines_placed
             /\ in_bounds(cfg, last.r, last.c) /\ LastCell \notin flags)
            => flags = {})

\* the second of two toggle_flag calls on one cell has just returned
C10_Witness ==
    /\ engine = "created" /\ ops = 2 /\ last.op = "toggle_flag"
    /\ in_bounds(cfg, last.r, last.c) /\ ~mines_placed /\ ~game_over
    /\ LastCell \notin flags /\ flags = {}

\* ---- Scenario A: the 4x4 board with one mine, played with reveal alone ----
ScenarioA == [rows |-> 4, cols |-> 4, mines |-> 1]

InitA ==
    /\ cfg = ScenarioA
    /\ engine = "none"
    /\ mines = {}
    /\ adj = <<>>
    /\ revealed = {}
    /\ flags = {}
    /\ mines_placed = FALSE
    /\ game_over = FALSE
    /\ won = FALSE
    /\ last = Call("none", 0, 0, "none")
    /\ ops = 0

NextA ==
    \/ Create
    \/ Reveal

SpecA == InitA /\ [][NextA]_vars

\* C11: Scenario A. On the 4x4 board whose single mine was placed at (3,3),
\* with no flags, the first reveal, of (0,0), reveals all 15 non-mine cells,
\* leaves (3,3) unrevealed and ends with game_over and won.
C11_ScenarioA ==
    (/\ cfg = ScenarioA /\ engine = "created" /\ ops = 1
     /\ last = Call("reveal", 0, 0, "none")
     /\ mines = {<<3, 3>>} /\ flags = {})
    => /\ revealed = Cells(cfg) \ {<<3, 3>>}
       /\ Cardinality(revealed) = 15
       /\ <<3, 3>> \notin revealed
       /\ game_over /\ won

\* the first reveal, of (0,0), has returned with the mine at (3,3)
C11_Witness ==
    /\ cfg = ScenarioA /\ engine = "created" /\ ops = 1
    /\ last = Call("reveal", 0, 0, "none")
    /\ mines = {<<3, 3>>} /\ flags = {}
    /\ adj[2][2] = 1 /\ <<2, 2>> \in revealed

\* C12 as stated: once construction has succeeded no call of reveal or
\* toggle_flag raises, and a call with out-of-bounds coordinates leaves the
\* state unchanged.
C12_NoThrowAfterCreate ==
    /\ [](engine = "created" => last.raised = "none")
    /\ [][(IsCall /\ ~in_bounds(cfg, last'.r, last'.c)) => UNCHANGED engineVars]_vars

\* C13: the game never reaches both outcomes. A mine is in revealed only in
\* the Lost state, and then it is the one mine that was clicked; while
\* game_over is false or won is true no mine is revealed; won implies
\* game_over; Lost never becomes Won and Won never becomes Lost.
C13_NeverBothOutcomes ==
    /\ [](engine = "created" =>
            /\ revealed \cap mines # {} =>
                  (game_over /\ ~won /\ Cardinality(revealed \cap mines) = 1)
            /\ (~game_over \/ won) => revealed \cap mines = {}
            /\ won => game_over)
    /\ [][/\ (game_over /\ ~won) => (game_over' /\ ~won')
          /\ (game_over /\ won) => (game_over' /\ won')
          /\ (~game_over /\ game_over' /\ ~won') =>
                (last'.op = "reveal" /\ revealed' \cap mines' = {<<last'.r, last'.c>>})]_vars

\* a Lost game whose revealed count equals rows*cols - mines
C13_Witness ==
    /\ game_over /\ ~won /\ last.op = "reveal" /\ LastCell \in mines
    /\ Cardinality(revealed \cap mines) = 1
    /\ Cardinality(revealed) = Total - cfg.mines

\* ---- the presentation shell's rendering of the board ----

\* a refresh that draws the mine icon on every mine, as _end_game does
refresh_board_shows_mines(g, ms, a, rev, fl) ==
    [p \in Cells(g) |->
        IF p \in ms THEN "mine"
        ELSE IF p \in rev
             THEN (IF a[p[1]][p[2]] = 0 THEN "" ELSE ToString(a[p[1]][p[2]]))
             ELSE (IF p \in fl THEN "flag" ELSE "")]

\* MinesweeperGUI._refresh_board: the text put on each button
refresh_board(g, ms, a, rev, fl) ==
    [p \in Cells(g) |->
        IF p \in rev
        THEN (IF p \in ms THEN "mine"
              ELSE IF a[p[1]][p[2]] = 0 THEN "" ELSE ToString(a[p[1]][p[2]]))
        ELSE (IF p \in fl THEN "flag" ELSE "")]

\* the numbers a button can show
CountTexts == { ToString(n) : n \in 1..8 }

\* C14: while game_over is false the refreshed board shows no mine icon on any
\* cell: only flag icons, blanks and adjacency numbers.
C14_NoMineIconBeforeGameOver ==
    (engine = "created" /\ ~game_over) =>
        \A p \in Cells(cfg) :
            LET text == refresh_board(cfg, mines, adj, revealed, flags)[p]
            IN  /\ text # "mine"
                /\ text \in {"flag", ""} \cup CountTexts

\* a running game drawn with a flag on a mine and a number on a revealed cell
C14_Witness ==
    /\ engine = "created" /\ ~game_over /\ mines_placed
    /\ \E f \in mines, p \in revealed :
          /\ refresh_board(cfg, mines, adj, revealed, flags)[f] = "flag"
          /\ refresh_board(cfg, mines, adj, revealed, flags)[p] \in CountTexts

\* the observable state of the engine's state machine
Phase(placed, over, w) ==
    IF ~placed THEN "Unstarted"
    ELSE IF ~over THEN "InProgress"
    ELSE IF w THEN "Won" ELSE "Lost"

PhaseNow == Phase(mines_placed, game_over, won)
PhaseNext == Phase(mines_placed', game_over', won')

\* C15 as stated: between consecutive operations the state only moves along
\* Unstarted -> InProgress -> Lost | Won, Lost and Won being entered only
\* from InProgress.
C15_Original ==
    [][(engine = "created" /\ engine' = "created") =>
         <<PhaseNow, PhaseNext>> \in
            { <<"Unstarted", "Unstarted">>, <<"Unstarted", "InProgress">>,
              <<"InProgress", "InProgress">>, <<"InProgress", "Lost">>,
              <<"InProgress", "Won">>, <<"Lost", "Lost">>, <<"Won", "Won">> }]_vars

\* C15 amended: as stated, except that Won is also entered straight from
\* Unstarted, when the placing reveal floods every non-mine cell. Lost is
\* entered only from InProgress, Unstarted is left only by a reveal, and no
\* operation returns to Unstarted or leaves Lost or Won.
C15_PhaseOrder ==
    [][(engine = "created" /\ engine' = "created") =>
         /\ <<PhaseNow, PhaseNext>> \in
               { <<"Unstarted", "Unstarted">>, <<"Unstarted", "InProgress">>,
                 <<"Unstarted", "Won">>,
                 <<"InProgress", "InProgress">>, <<"InProgress", "Lost">>,
                 <<"InProgress", "Won">>, <<"Lost", "Lost">>, <<"Won", "Won">> }
         /\ PhaseNow # PhaseNext => last'.op = "reveal"]_vars

\* a game won by its very first call, on a board that holds a mine
C15_Witness ==
    /\ engine = "created" /\ ops = 1 /\ last.op = "reveal"
    /\ PhaseNow = "Won" /\ mines # {}

\* the call of this step is a reveal that passes both early returns of reveal
RevealPasses ==
    /\ IsCall /\ last'.op = "reveal"
    /\ ~game_over /\ in_bounds(cfg, last'.r, last'.c)
    /\ <<last'.r, last'.c>> \notin flags /\ <<last'.r, last'.c>> \notin revealed

\* C16 as stated, for the configurations construction is meant to accept:
\* after the first reveal call, whichever cell it names, mines_placed is true.
C16_Original ==
    [][(engine = "created" /\ ValidConfig(cfg) /\ IsCall /\ last'.op = "reveal"
          /\ in_bounds(cfg, last'.r, last'.c))
        => mines_placed']_vars

\* C16 amended: placement happens at most once, in the first reveal call that
\* passes reveal's early returns (game not over, cell in bounds, not flagged,
\* not revealed), whichever such cell it names: that call sets mines_placed
\* unless rng.sample raises (negative mine count), no other call sets it, and
\* once it is set no call changes mines, adj or mines_placed.
C16_PlacementOnce ==
    [][(engine = "created" /\ engine' = "created") =>
         /\ (~mines_placed /\ mines_placed') => RevealPasses
         /\ (~mines_placed /\ RevealPasses) =>
               \/ mines_placed' /\ last'.raised = "none"
               \/ ~mines_placed' /\ last'.raised = "ValueError" /\ cfg.mines < 0
         /\ mines_placed => (mines_placed' /\ mines' = mines /\ adj' = adj)]_vars

\* a reveal that floods, made after the placing one, on a board with mines
C16_Witness ==
    /\ mines_placed /\ ops >= 2 /\ last.op = "reveal" /\ ~game_over
    /\ mines # {} /\ LastCell \in revealed /\ revealed # {LastCell}

\* ---- flood reveal against its specification ----

\* the in-bounds cells at Chebyshev distance 1 of p
Around(g, p) ==
    { q \in Cells(g) :
        /\ q # p
        /\ q[1] - p[1] \in {-1, 0, 1}
        /\ q[2] - p[2] \in {-1, 0, 1} }

\* the least set holding s and, for each of its cells of count zero, every
\* neighbour that was neither revealed before the call nor flagged
RECURSIVE Closure(_, _, _, _, _)
Closure(g, a, rev, fl, R) ==
    LET more == UNION { Around(g, p) \ (rev \cup fl) : p \in { q \in R : a[q[1]][q[2]] = 0 } }
    IN  IF more \subseteq R THEN R ELSE Closure(g, a, rev, fl, R \cup more)

\* the loop of _flood_reveal with the frontier processed first-in-first-out
RECURSIVE flood_loop_fifo(_, _, _, _, _, _)
flood_loop_fifo(g, a, ms, fl, queue, rev) ==
    IF queue = <<>> THEN rev
    ELSE LET cell == Head(queue)
             rest == Tail(queue)
         IN  IF cell \in rev \/ cell \in fl
             THEN flood_loop_fifo(g, a, ms, fl, rest, rev)
             ELSE LET rev2 == rev \cup {cell}
                  IN  IF a[cell[1]][cell[2]] = 0
                      THEN flood_loop_fifo(g, a, ms, fl,
                               rest \o SelectSeq(neighbors(g, cell[1], cell[2]),
                                           LAMBDA nb : nb \notin rev2 /\ nb \notin ms /\ nb \notin fl),
                               rev2)
                      ELSE flood_loop_fifo(g, a, ms, fl, rest, rev2)

\* the same loop taking the frontier's cells in any order whatever: every
\* revealed set it can end with (a cell waiting twice is skipped the second
\* time, so the frontier is kept as a set)
RECURSIVE flood_any_order(_, _, _, _, _, _)
flood_any_order(g, a, ms, fl, frontier, rev) ==
    IF frontier = {} THEN {rev}
    ELSE UNION {
        LET rest == frontier \ {cell}
        IN  IF cell \in rev \/ cell \in fl
            THEN flood_any_order(g, a, ms, fl, rest, rev)
            ELSE LET rev2 == rev \cup {cell}
                 IN  IF a[cell[1]][cell[2]] = 0
                     THEN flood_any_order(g, a, ms, fl,
                              rest \cup { nb \in SeqToSet(neighbors(g, cell[1], cell[2])) :
                                            nb \notin rev2 /\ nb \notin ms /\ nb \notin fl },
                              rev2)
                     ELSE flood_any_order(g, a, ms, fl, rest, rev2)
        : cell \in frontier }

\* C17: a reveal of an unrevealed, unflagged, non-mine cell s leaves revealed
\* equal to the old revealed set united with the closure of s through the
\* zero-count cells; processing the frontier first-in-first-out or in any
\* other order ends with that same set; flags are unchanged.
C17_FloodIsClosure ==
    [][(RevealPasses /\ last'.raised = "none" /\ <<last'.r, last'.c>> \notin mines') =>
         LET s == <<last'.r, last'.c>>
         IN  /\ revealed' = revealed \cup Closure(cfg, adj', revealed, flags, {s})
             /\ flood_loop_fifo(cfg, adj', mines', flags, <<s>>, revealed) = revealed'
             /\ flood_any_order(cfg, adj', mines', flags, {s}, revealed) = {revealed'}
             /\ flags' = flags]_vars

\* a flood that went on from a zero-count cell and stopped at a flagged cell
\* and at a numbered cell, the game still running
C17_Witness ==
    /\ last.op = "reveal" /\ mines_placed /\ ~game_over
    /\ LastCell \in revealed /\ adj[last.r][last.c] = 0
    /\ Cardinality(revealed) >= 2
    /\ \E f \in flags : f \in Around(cfg, LastCell)

\* the board cells outside s and its in-bounds neighbours
Outside(g, s) == Cells(g) \ ({s} \cup Around(g, s))

\* C18: placement exclusion policy. On the first effective reveal of s, if
\* the cells outside s and its neighbours number at least cfg.mines, no mine
\* lies on s or on a neighbour of s (so adj of s is 0); otherwise the mines
\* are drawn from all cells other than s.
C18_ExclusionPolicy ==
    /\ [](engine = "created" =>
            \A s \in Cells(cfg) :
               candidates(cfg, s) =
                  IF Cardinality(Outside(cfg, s)) >= cfg.mines
                  THEN Outside(cfg, s) ELSE Cells(cfg) \ {s})
    /\ [][(engine = "created" /\ ~mines_placed /\ mines_placed') =>
            LET s == <<last'.r, last'.c>>
            IN  IF Cardinality(Outside(cfg, s)) >= cfg.mines
                THEN /\ mines' \subseteq Outside(cfg, s)
                     /\ adj'[s[1]][s[2]] = 0
                ELSE /\ mines' \subseteq Cells(cfg) \ {s}
                     /\ Cardinality(mines') = cfg.mines]_vars

\* a first reveal whose strict pool was exactly as large as the mine count
C18_Witness ==
    /\ mines_placed /\ ops = 1 /\ last.op = "reveal" /\ cfg.mines >= 1
    /\ Cardinality(Outside(cfg, LastCell)) = cfg.mines
    /\ mines = Outside(cfg, LastCell)

\* ---- the work-list loop of _flood_reveal, iteration by iteration ----

\* one iteration of the while-loop: the stack and revealed set it leaves, and
\* the cell it passed to revealed.add, if any
flood_step(g, a, ms, fl, stack, rev) ==
    LET cell == stack[Len(stack)]
        rest == SubSeq(stack, 1, Len(stack) - 1)
    IN  IF cell \in rev \/ cell \in fl
        THEN [stack |-> rest, rev |-> rev, added |-> {}]
        ELSE LET rev2 == rev \cup {cell}
             IN  [stack |-> IF a[cell[1]][cell[2]] = 0
                            THEN rest \o SelectSeq(neighbors(g, cell[1], cell[2]),
                                           LAMBDA nb : nb \notin rev2 /\ nb \notin ms /\ nb \notin fl)
                            ELSE rest,
                  rev |-> rev2,
                  added |-> {cell}]

\* an iteration that adds the popped cell without looking whether it is
\* revealed already
flood_step_no_pop_check(g, a, ms, fl, stack, rev) ==
    LET cell == stack[Len(stack)]
        rest == SubSeq(stack, 1, Len(stack) - 1)
        rev2 == rev \cup {cell}
    IN  [stack |-> IF a[cell[1]][cell[2]] = 0
                   THEN rest \o SelectSeq(neighbors(g, cell[1], cell[2]),
                                  LAMBDA nb : nb \notin rev2 /\ nb \notin ms /\ nb \notin fl)
                   ELSE rest,
         rev |-> rev2,
         added |-> {cell}]

\* the run of the loop where each iteration adds its cell unchecked
RECURSIVE flood_trace_no_pop_check(_, _, _, _, _, _)
flood_trace_no_pop_check(g, a, ms, fl, stack, rev) ==
    IF stack = <<>> THEN <<>>
    ELSE LET nxt == flood_step_no_pop_check(g, a, ms, fl, stack, rev)
         IN  <<[stack |-> stack, rev |-> rev, added |-> nxt.added]>>
                \o flood_trace_no_pop_check(g, a, ms, fl, nxt.stack, nxt.rev)

\* the run of the loop: one entry per iteration, with the stack and revealed
\* set it starts from and the cell it adds; empty when the stack is empty
RECURSIVE flood_trace(_, _, _, _, _, _)
flood_trace(g, a, ms, fl, stack, rev) ==
    IF stack = <<>> THEN <<>>
    ELSE LET nxt == flood_step(g, a, ms, fl, stack, rev)
         IN  <<[stack |-> stack, rev |-> rev, added |-> nxt.added]>>
                \o flood_trace(g, a, ms, fl, nxt.stack, nxt.rev)

\* what bounds the loop: nine per cell still unrevealed, one per stack entry
Measure(g, stack, rev) == 9 * Cardinality(Cells(g) \ rev) + Len(stack)

\* the iterations of a run are in order: every cell passed to revealed.add
\* was not revealed before and was not added by an earlier iteration (seen),
\* and each iteration keeps revealed and lowers the measure
RECURSIVE IterationsInOrder(_, _, _)
IterationsInOrder(g, tr, seen) ==
    \/ tr = <<>>
    \/ /\ tr[1].added \cap (tr[1].rev \cup seen) = {}
       /\ Len(tr) >= 2 =>
             /\ tr[1].rev \subseteq tr[2].rev
             /\ Measure(g, tr[2].stack, tr[2].rev) < Measure(g, tr[1].stack, tr[1].rev)
       /\ IterationsInOrder(g, Tail(tr), seen \cup tr[1].added)

\* a run of the loop started from rev is bounded in length, in order, and
\* ends with the revealed set final
RunTerminates(g, tr, rev, final) ==
    /\ Len(tr) >= 1 /\ Len(tr) <= 1 + 8 * Cardinality(Cells(g))
    /\ IterationsInOrder(g, tr, {})
    /\ final = rev \cup UNION { tr[i].added : i \in 1..Len(tr) }

\* C19: flood reveal terminates. From every state in which reveal floods, the
\* work-list loop runs a bounded number of iterations, each of which lowers
\* the measure; every cell passed to revealed.add was not revealed before and
\* no cell is added twice; the loop ends with the revealed set reveal leaves;
\* and no call ever removes a cell from revealed.
C19_FloodTerminates ==
    /\ [][(RevealPasses /\ last'.raised = "none" /\ <<last'.r, last'.c>> \notin mines') =>
            RunTerminates(cfg,
                          flood_trace(cfg, adj', mines', flags, <<<<last'.r, last'.c>>>>, revealed),
                          revealed, revealed')]_vars
    /\ [][revealed \subseteq revealed']_vars

\* one flood, the first call of the game, revealed four cells or more
C19_Witness ==
    /\ ops = 1 /\ last.op = "reveal" /\ mines_placed
    /\ Cardinality(revealed) >= 4 /\ LastCell \in revealed

\* ---- runs in which toggle_flag is never called ----
NextNoFlags ==
    \/ Create
    \/ CreateFails
    \/ Reveal

SpecNoFlags == Init /\ [][NextNoFlags]_vars

\* every revealed non-mine cell of count zero has all its neighbours revealed
AutoOpenClosed ==
    \A z \in revealed \ mines :
        adj[z[1]][z[2]] = 0 => Around(cfg, z) \subseteq revealed

\* C20: in a run without toggle_flag calls, after every reveal each revealed
\* non-mine cell of adjacency 0 has all its in-bounds neighbours revealed.
\* (With toggle_flag calls it fails: flag a neighbour, flood, unflag it.)
C20_AutoOpenClosedWithoutFlags == engine = "created" => AutoOpenClosed

\* a flood opened a zero-count cell and its neighbours, the game still running
C20_Witness ==
    /\ engine = "created" /\ mines_placed /\ ~game_over /\ mines # {}
    /\ \E z \in revealed : adj[z[1]][z[2]] = 0 /\ Around(cfg, z) # {}
====
